---- MODULE Spec2Model ----
(***************************************************************************)
(* Model of the stage lifecycle manager of lib/spack/spack/stage.py:       *)
(* class Stage (scope entry/exit, create, destroy, fetch, check), the path *)
(* check _need_to_create_path and find_tmp_root.                           *)
(*                                                                         *)
(* One named stage directory `path` (spack.stage_path/<name>) is shared by *)
(* the processes of Procs; each process owns one Stage object for it.      *)
(* A path is a sequence of components, a component a sequence of           *)
(* characters, so that the string test str.startswith can be told from     *)
(* containment in a directory tree.                                        *)
(***************************************************************************)
EXTENDS Integers, Sequences, FiniteSets, TLC

\* ------------------------------------------------------------------ bounds
\* Largest number of configured mirrors.
MaxMirrors == 2
\* Largest number of stages in a composite.
MaxMembers == 2

\* ------------------------------------------------------------------- paths
Procs == {"p1", "p2"}

\* None, for a path.
None == <<>>

\* No process: the lock is free.
NoProc == "none"

\* The directories that can hold backing storage: /t, /tx (a sibling whose
\* name merely begins with "t"), /o (elsewhere), and /l, a symbolic link
\* to /t.
RootT  == << <<"t">> >>
RootTX == << <<"t", "x">> >>
RootO  == << <<"o">> >>
RootL  == << <<"l">> >>

\* The name of the stage.
StageName == "n"

\* Names tempfile.mkdtemp can give to a new directory.
Children == { <<"a">>, <<"b">> }

\* Canonical directories that may exist as backing storage of a stage.
BackingDirs == { r \o <<c>> : r \in {RootT, RootTX, RootO}, c \in Children }

\* os.path.realpath: resolves symbolic links met on the way; /l -> /t.
realpath(p) ==
    IF p # <<>> /\ Head(p) = Head(RootL) THEN RootT \o Tail(p) ELSE p

\* The string of a path: "/" + component for every component.
RECURSIVE PathString(_)
PathString(p) ==
    IF p = <<>> THEN <<>> ELSE (<<"/">> \o Head(p)) \o PathString(Tail(p))

\* str.startswith on two character strings.
startswith(s, prefix) ==
    /\ Len(prefix) <= Len(s)
    /\ SubSeq(s, 1, Len(prefix)) = prefix

\* spack.tmp_dirs: the configured temp-directory candidates, in order.
tmp_dirs == << RootL, RootT >>

VARIABLES
    \* ---- the filesystem, shared by all processes
    pathEntry,     \* what is at self.path: [kind, target, acc]
    dirs,          \* the backing directories that exist (canonical paths)
    lockHolder,    \* the process holding <name>.lock exclusively, or NoProc
    \* ---- process-wide configuration, fixed for a run
    use_tmp_stage, \* spack.use_tmp_stage
    creatable,     \* the candidates of tmp_dirs that mkdirp can create
    mirrors,       \* spack.config.get_config('mirrors').values(), in order
    mirror_path,   \* Stage.mirror_path: TRUE when one is given
    defaultIsURL,  \* isinstance(default_fetcher, fs.URLFetchStrategy)
    defaultDigest, \* default_fetcher.digest
    \* ---- one Stage object per process
    pc,            \* where the process is in the life of its Stage
    keep,          \* Stage.keep
    locking,       \* Stage._lock is not None
    tmp_root,      \* Stage.tmp_root, None when there is none
    fetcher,       \* Stage.fetcher, the active fetcher
    skip_checksum_for_mirror,
    cwd,           \* the process's working directory
    \* ---- the operation that ran last, and what it did
    last,
    \* ---- the other stage classes of the module
    composite,     \* a StageComposite: [items, keep, pc]
    diy,           \* a DIYStage, the directory it wraps and the caller's cwd
    tree,          \* a stage directory with what lies in it, and its fetcher
    call           \* the last call on one of these objects

\* The objects of the other stage classes.
others == << composite, diy, tree, call >>

vars == << pathEntry, dirs, lockHolder, use_tmp_stage, creatable, mirrors,
           mirror_path, defaultIsURL, defaultDigest, pc, keep, locking,
           tmp_root, fetcher, skip_checksum_for_mirror, cwd, last,
           composite, diy, tree, call >>

config == << use_tmp_stage, creatable, mirrors, mirror_path, defaultIsURL,
             defaultDigest >>

stage == << pathEntry, dirs, lockHolder, use_tmp_stage, creatable, mirrors,
            mirror_path, defaultIsURL, defaultDigest, pc, keep, locking,
            tmp_root, fetcher, skip_checksum_for_mirror, cwd, last >>

\* No object of the other classes has been made, no call on one has run.
NoComposite == [items |-> <<>>, keep |-> "absent", pc |-> "none"]
NoDIY == [path |-> None, source_path |-> None, archive_file |-> None,
          dir |-> [exists |-> FALSE, contents |-> {}], cwd |-> None]
NoTree == [kind |-> "none", yields |-> "nothing", made |-> FALSE,
           listing |-> <<>>, cwd |-> None, placement |-> "None",
           root |-> [source |-> FALSE, target |-> FALSE, dest |-> <<>>]]
NoCall == [method |-> "none", log |-> <<>>, raised |-> "none",
           result |-> None, exc |-> FALSE]

\* ------------------------------------------------------------- filesystem
Missing == [kind |-> "missing", target |-> None, acc |-> FALSE]
RegularFile == [kind |-> "file", target |-> None, acc |-> TRUE]
RealDir(acc) == [kind |-> "dir", target |-> None, acc |-> acc]
Link(target) == [kind |-> "link", target |-> target, acc |-> TRUE]

\* os.path.islink
islink(e) == e.kind = "link"

\* os.path.exists: follows symbolic links.
exists(e, ds) ==
    \/ e.kind \in {"file", "dir"}
    \/ e.kind = "link" /\ realpath(e.target) \in ds

\* os.path.isdir: follows symbolic links.
isdir(e, ds) ==
    \/ e.kind = "dir"
    \/ e.kind = "link" /\ realpath(e.target) \in ds

\* llnl.util.filesystem.can_access: read, write and execute permission
\* (os.access follows symbolic links; a file may grant all three).
can_access(e, ds) ==
    \/ e.kind = "dir" /\ e.acc
    \/ e.kind = "link" /\ realpath(e.target) \in ds
    \/ e.kind = "file"

\* llnl.util.filesystem.remove_if_dead_link: removes a symbolic link whose
\* target no longer exists.
remove_if_dead_link(e, ds) ==
    IF islink(e) /\ realpath(e.target) \notin ds THEN Missing ELSE e

\* llnl.util.filesystem.remove_linked_tree: removes the tree at path; for a
\* symbolic link, the link and the directory it points to.
remove_linked_tree(e, ds) ==
    [entry |-> Missing,
     dirs  |-> IF islink(e) THEN ds \ {realpath(e.target)} ELSE ds]

\* ---------------------------------------------------------- find_tmp_root
\* Mutant: the candidates are tried from the end of the list.
RECURSIVE first_creatable_from_end(_, _)
first_creatable_from_end(candidates, ok) ==
    IF candidates = <<>> THEN None
    ELSE IF candidates[Len(candidates)] \in ok
    THEN candidates[Len(candidates)]
    ELSE first_creatable_from_end(
             SubSeq(candidates, 1, Len(candidates) - 1), ok)

RECURSIVE first_creatable(_, _)
first_creatable(candidates, ok) ==
    IF candidates = <<>> THEN None
    ELSE IF Head(candidates) \in ok THEN Head(candidates)
    ELSE first_creatable(Tail(candidates), ok)

find_tmp_root ==
    IF use_tmp_stage THEN first_creatable(tmp_dirs, creatable) ELSE None

\* Mutant: the path check never keeps what it finds: whatever is at path is
\* removed and the stage is built anew.
need_to_create_path_never_keeps(e, ds, tmp) ==
    [need |-> TRUE, entry |-> Missing, raised |-> "none"]

\* Mutant: the arguments of startswith exchanged in the test of the link's
\* target.
need_to_create_path_swapped(e, ds, tmp) ==
    IF ~exists(e, ds) THEN
        [need |-> TRUE, entry |-> e, raised |-> "none"]
    ELSE IF ~isdir(e, ds) THEN
        [need |-> TRUE, entry |-> Missing, raised |-> "none"]
    ELSE IF islink(e) THEN
        IF tmp = None THEN
            [need |-> FALSE, entry |-> e, raised |-> "AttributeError"]
        ELSE IF use_tmp_stage THEN
            IF /\ startswith(PathString(realpath(tmp)),
                             PathString(realpath(e.target)))
               /\ realpath(e.target) \in ds
            THEN [need |-> FALSE, entry |-> e, raised |-> "none"]
            ELSE [need |-> TRUE, entry |-> Missing, raised |-> "none"]
        ELSE
            [need |-> TRUE, entry |-> Missing, raised |-> "none"]
    ELSE
        [need |-> FALSE, entry |-> e, raised |-> "none"]

\* Mutant: a real directory at path is blown away and built again.
need_to_create_path_rebuilds_dir(e, ds, tmp) ==
    IF ~exists(e, ds) THEN
        [need |-> TRUE, entry |-> e, raised |-> "none"]
    ELSE IF ~isdir(e, ds) THEN
        [need |-> TRUE, entry |-> Missing, raised |-> "none"]
    ELSE IF islink(e) THEN
        IF tmp = None THEN
            [need |-> FALSE, entry |-> e, raised |-> "AttributeError"]
        ELSE IF use_tmp_stage THEN
            IF /\ startswith(PathString(realpath(e.target)),
                             PathString(realpath(tmp)))
               /\ realpath(e.target) \in ds
            THEN [need |-> FALSE, entry |-> e, raised |-> "none"]
            ELSE [need |-> TRUE, entry |-> Missing, raised |-> "none"]
        ELSE
            [need |-> TRUE, entry |-> Missing, raised |-> "none"]
    ELSE
        [need |-> TRUE, entry |-> Missing, raised |-> "none"]

\* Mutant: the branch that removes an entry that is not a directory is
\* missing.
need_to_create_path_keeps_file(e, ds, tmp) ==
    IF ~exists(e, ds) THEN
        [need |-> TRUE, entry |-> e, raised |-> "none"]
    ELSE IF islink(e) THEN
        IF tmp = None THEN
            [need |-> FALSE, entry |-> e, raised |-> "AttributeError"]
        ELSE IF use_tmp_stage THEN
            IF /\ startswith(PathString(realpath(e.target)),
                             PathString(realpath(tmp)))
               /\ realpath(e.target) \in ds
            THEN [need |-> FALSE, entry |-> e, raised |-> "none"]
            ELSE [need |-> TRUE, entry |-> Missing, raised |-> "none"]
        ELSE
            [need |-> TRUE, entry |-> Missing, raised |-> "none"]
    ELSE
        [need |-> FALSE, entry |-> e, raised |-> "none"]

\* ------------------------------------------------- Stage._need_to_create_path
\* The answer (need: the path must be created), what is left at path, and
\* the error raised, if any.  os.path.realpath(None) raises: with no temp
\* root the check of a symbolic link does not complete.
need_to_create_path(e, ds, tmp) ==
    IF ~exists(e, ds) THEN
        [need |-> TRUE, entry |-> e, raised |-> "none"]
    ELSE IF ~isdir(e, ds) THEN
        [need |-> TRUE, entry |-> Missing, raised |-> "none"]
    ELSE IF islink(e) THEN
        IF tmp = None THEN
            [need |-> FALSE, entry |-> e, raised |-> "AttributeError"]
        ELSE IF use_tmp_stage THEN
            IF /\ startswith(PathString(realpath(e.target)),
                             PathString(realpath(tmp)))
               /\ realpath(e.target) \in ds
            THEN [need |-> FALSE, entry |-> e, raised |-> "none"]
            ELSE [need |-> TRUE, entry |-> Missing, raised |-> "none"]
        ELSE
            [need |-> TRUE, entry |-> Missing, raised |-> "none"]
    ELSE
        [need |-> FALSE, entry |-> e, raised |-> "none"]

\* ------------------------------------------------------------ Stage.create
\* c is the name tempfile.mkdtemp picks.  The result is what is at path, the
\* backing directories, the error raised, and whether mkdtemp was called.
create(e, ds, tmp, c) ==
    LET e1 == remove_if_dead_link(e, ds)
        n  == need_to_create_path(e1, ds, tmp)
        made ==
            IF n.raised # "none" \/ ~n.need THEN
                [entry |-> n.entry, dirs |-> ds, mkdtemp |-> FALSE]
            ELSE IF tmp # None THEN
                [entry |-> Link(tmp \o <<c>>),
                 dirs  |-> ds \cup {realpath(tmp \o <<c>>)},
                 mkdtemp |-> TRUE]
            ELSE
                [entry |-> RealDir(TRUE), dirs |-> ds, mkdtemp |-> FALSE]
    IN  [entry   |-> made.entry,
         dirs    |-> made.dirs,
         mkdtemp |-> made.mkdtemp,
         raised  |-> IF n.raised # "none" THEN n.raised
                     ELSE IF ~can_access(made.entry, made.dirs) THEN "die"
                     ELSE "none"]

\* mkdtemp never returns a name that exists.
fresh(ds, tmp, c) == tmp # None => realpath(tmp \o <<c>>) \notin ds

\* ----------------------------------------------------------- Stage.destroy
\* fault: a system call of the removal (os.unlink, os.chdir) fails with
\* OSError before anything is removed.
destroy(e, ds, fault) ==
    IF fault THEN [entry |-> e, dirs |-> ds, raised |-> "OSError"]
    ELSE [entry  |-> remove_linked_tree(e, ds).entry,
          dirs   |-> remove_linked_tree(e, ds).dirs,
          raised |-> "none"]

\* Working directories.  A process is in a directory it once entered; gone
\* records that this directory has been removed since (a directory made
\* later under the same name is another directory).
Home == << <<"h">> >>
StageRoot == << <<"s">> >>
StagePath == StageRoot \o << <<StageName>> >>
dirname(q) == SubSeq(q, 1, Len(q) - 1)

\* The directory os.chdir(self.path) arrives in.
chdir_target(e) == IF islink(e) THEN realpath(e.target) ELSE StagePath

\* The directories a removal takes away: the one at path and the backing
\* directories no longer there.
removed_dirs(e, ds, e2, ds2) ==
    (IF e.kind = "dir" /\ e2.kind # "dir" THEN {StagePath} ELSE {})
        \cup (ds \ ds2)

\* The working directories of all processes once these directories are
\* removed.
after_removal(c, rm) ==
    [q \in Procs |-> IF c[q].dir \in rm THEN [c[q] EXCEPT !.gone = TRUE]
                     ELSE c[q]]

\* os.getcwd() raises OSError in a removed directory.
getcwd_ok(d) == ~d.gone

\* Mutant: destroy() does not look at the working directory.
cwd_after_destroy_stays(d) == d

\* os.getcwd() fails when the working directory was in the removed tree;
\* the process then moves to os.path.dirname(self.path).
cwd_after_destroy(d) ==
    IF getcwd_ok(d) THEN d ELSE [dir |-> dirname(StagePath), gone |-> FALSE]

\* -------------------------------------------------------------- fetchers
\* bool(digest): None and the empty string are false.
bool(digest) == digest \notin {"None", ""}

\* The root of the i-th configured mirror; every second one is written with
\* its trailing "/".
MirrorRoot(i) ==
    IF i % 2 = 0 THEN <<"m", ToString(i), "/">> ELSE <<"m", ToString(i)>>

\* root if root.endswith('/') else root + '/'
with_slash(root) ==
    IF root # <<>> /\ root[Len(root)] = "/" THEN root ELSE Append(root, "/")

\* urlparse.urljoin for a relative path: everything past the final "/" of
\* the base is stripped, and the path appended.
RECURSIVE up_to_last_slash(_)
up_to_last_slash(base) ==
    IF base = <<>> \/ base[Len(base)] = "/" THEN base
    ELSE up_to_last_slash(SubSeq(base, 1, Len(base) - 1))

urljoin(base, rel) == up_to_last_slash(base) \o rel

\* Stage.default_fetcher.  A fetcher is told from another by identity: the
\* default fetcher is the one object of kind "default".
default_fetcher ==
    [kind |-> "default", url |-> <<"u">>,
     digest |-> IF defaultIsURL THEN defaultDigest ELSE "None"]

\* digest = None; if isinstance(default_fetcher, URLFetchStrategy): digest = ...
mirror_digest == IF defaultIsURL THEN defaultDigest ELSE "None"

\* fs.URLFetchStrategy(url, digest) for every mirror, in configuration order.
mirror_fetchers ==
    [i \in 1..Len(mirrors) |->
        [kind |-> "mirror",
         url |-> urljoin(with_slash(mirrors[i]), mirror_path),
         digest |-> mirror_digest]]

\* Mutant: fetchers.append(...) in place of fetchers.insert(0, ...).
insert_all_appends(new, fetchers) == fetchers \o new

\* for url in urls: fetchers.insert(0, ...)
RECURSIVE insert_all(_, _)
insert_all(new, fetchers) ==
    IF new = <<>> THEN fetchers
    ELSE insert_all(Tail(new), <<Head(new)>> \o fetchers)

\* The candidates of Stage.fetch, in the order they are tried.
fetchers(mirror_only) ==
    LET seed == IF mirror_only THEN <<>> ELSE <<default_fetcher>>
    IN  IF mirror_path # <<>> THEN insert_all(mirror_fetchers, seed) ELSE seed

\* Mutant: except Exception in place of except SpackError, so that every
\* error of a candidate is swallowed and the next candidate tried.
RECURSIVE try_fetchers_catch_all(_, _, _, _)
try_fetchers_catch_all(fs, outcome, i, tried) ==
    IF i > Len(fs) THEN
        [fetcher |-> default_fetcher, raised |-> "FetchError", tried |-> tried,
         names |-> StageName]
    ELSE IF outcome[i] # "ok" THEN
        try_fetchers_catch_all(fs, outcome, i + 1,
                               Append(tried, [f |-> fs[i], did |-> outcome[i]]))
    ELSE
        [fetcher |-> fs[i], raised |-> "none",
         tried   |-> Append(tried, [f |-> fs[i], did |-> outcome[i]]),
         names   |-> ""]

\* Mutant: the else branch of the loop does not reset self.fetcher.
RECURSIVE try_fetchers_no_reset(_, _, _, _)
try_fetchers_no_reset(fs, outcome, i, tried) ==
    IF i > Len(fs) THEN
        [fetcher |-> IF fs = <<>> THEN default_fetcher ELSE fs[Len(fs)],
         raised |-> "FetchError", tried |-> tried, names |-> StageName]
    ELSE IF outcome[i] = "SpackError" THEN
        try_fetchers_no_reset(fs, outcome, i + 1,
                              Append(tried, [f |-> fs[i], did |-> outcome[i]]))
    ELSE
        [fetcher |-> fs[i],
         raised  |-> IF outcome[i] = "ok" THEN "none" ELSE "crash",
         tried   |-> Append(tried, [f |-> fs[i], did |-> outcome[i]]),
         names   |-> ""]

\* The for/else loop of Stage.fetch over the candidates fs from index i on:
\* outcome[i] is what the i-th candidate's fetch() does ("ok", "SpackError",
\* or "crash" for an error that is not a SpackError).  tried lists the
\* candidates attempted with what each did; names is the stage name the
\* message of the error raised carries.
RECURSIVE try_fetchers(_, _, _, _)
try_fetchers(fs, outcome, i, tried) ==
    IF i > Len(fs) THEN
        [fetcher |-> default_fetcher, raised |-> "FetchError", tried |-> tried,
         names |-> StageName]
    ELSE IF outcome[i] = "SpackError" THEN
        try_fetchers(fs, outcome, i + 1,
                     Append(tried, [f |-> fs[i], did |-> outcome[i]]))
    ELSE
        [fetcher |-> fs[i],
         raised  |-> IF outcome[i] = "ok" THEN "none" ELSE "crash",
         tried   |-> Append(tried, [f |-> fs[i], did |-> outcome[i]]),
         names   |-> ""]

\* self.skip_checksum_for_mirror after the candidates are built.
skip_after_fetch ==
    IF mirror_path # <<>> THEN ~bool(mirror_digest) ELSE TRUE

\* Mutant: the test that the active fetcher is not the default one is
\* missing.
check_skips_any_fetcher(f, skip) == skip

\* Stage.check: the condition under which verification is skipped.
check_skips(f, skip) == f.kind # "default" /\ skip

\* ------------------------------------------------------------------ locks
\* llnl.util.lock.Lock.acquire_write: the exclusive lock is granted when no
\* other process holds it.
acquire_write_ok(p) == lockHolder \in {NoProc, p}

\* Mutant: __enter__ does not take the lock.
can_enter_unlocked(p) == TRUE

\* Stage.__enter__: if self._lock is not None: self._lock.acquire_write(60)
can_enter(p) == locking[p] => acquire_write_ok(p)

\* Mutant: __enter__ goes on to create() without holding the lock.
lock_after_enter_not_held(p) == lockHolder

\* The holder of the lock once acquire_write has returned.
lock_after_enter(p) == IF locking[p] THEN p ELSE lockHolder

\* Stage.__exit__: if self._lock is not None: self._lock.release_write()
lock_after_exit(p) ==
    IF locking[p] /\ lockHolder = p THEN NoProc ELSE lockHolder

\* Mutant: the test of exc_type is missing.
exit_destroys_on_error(exc, k) == ~k

\* Stage.__exit__: if exc_type is None and not self.keep: self.destroy()
exit_destroys(exc, k) == ~exc /\ ~k

\* ---------------------------------------------------------------- actions
\* pc: "absent" (the process does not run), "new" (no Stage yet), "made"
\* (constructed, outside a scope), "in" (inside the scope), "raising" (an
\* error is propagating out of the scope body), "out" (left the scope with
\* no error), "failed" (left it, or failed to enter it, with an error).
Outcomes == {"ok", "SpackError", "crash"}

Op(p, name, raised) ==
    [proc |-> p, op |-> name, raised |-> raised, exc |-> FALSE,
     mirror_only |-> FALSE, order |-> <<>>, tried |-> <<>>,
     skipped |-> FALSE, mkdtemp |-> FALSE, names |-> ""]

\* An error raised by an operation inside the scope body propagates out of
\* it; outside a scope the caller goes on.
after_raise(p) == IF pc[p] = "in" THEN "raising" ELSE pc[p]

\* Stage.__init__
Construct(p) ==
    /\ pc[p] = "new"
    /\ \E k \in BOOLEAN, l \in BOOLEAN :
        /\ keep' = [keep EXCEPT ![p] = k]
        /\ locking' = [locking EXCEPT ![p] = l]
    /\ pc' = [pc EXCEPT ![p] = "made"]
    /\ tmp_root' = [tmp_root EXCEPT ![p] = find_tmp_root]
    /\ fetcher' = [fetcher EXCEPT ![p] = default_fetcher]
    /\ skip_checksum_for_mirror' =
           [skip_checksum_for_mirror EXCEPT ![p] = TRUE]
    /\ last' = Op(p, "init", "none")
    /\ UNCHANGED << pathEntry, dirs, lockHolder, config, cwd >>
    /\ UNCHANGED others

\* Stage.__enter__: the lock is acquired, then create() runs.  An error of
\* create() leaves __enter__ with the lock held.
Enter(p) ==
    /\ pc[p] = "made"
    /\ can_enter(p)
    /\ \E c \in Children :
        LET r == create(pathEntry, dirs, tmp_root[p], c) IN
        /\ r.mkdtemp => fresh(dirs, tmp_root[p], c)
        /\ pathEntry' = r.entry
        /\ dirs' = r.dirs
        /\ lockHolder' = lock_after_enter(p)
        /\ pc' = [pc EXCEPT ![p] =
                     IF r.raised = "none" THEN "in" ELSE "failed"]
        /\ last' = [Op(p, "enter", r.raised) EXCEPT !.mkdtemp = r.mkdtemp]
    /\ UNCHANGED << config, keep, locking, tmp_root, fetcher,
                    skip_checksum_for_mirror, cwd >>
    /\ UNCHANGED others

\* Stage.__enter__ when the lock stays held by another process for the
\* whole bounded wait: acquire_write raises, create() does not run.
EnterTimeout(p) ==
    /\ pc[p] = "made"
    /\ locking[p]
    /\ ~acquire_write_ok(p)
    /\ pc' = [pc EXCEPT ![p] = "failed"]
    /\ last' = Op(p, "enter", "LockError")
    /\ UNCHANGED << pathEntry, dirs, lockHolder, config, keep, locking,
                    tmp_root, fetcher, skip_checksum_for_mirror, cwd >>
    /\ UNCHANGED others

\* An error raised by the caller's own code inside the scope body.
Raise(p) ==
    /\ pc[p] = "in"
    /\ pc' = [pc EXCEPT ![p] = "raising"]
    /\ last' = Op(p, "body", "Error")
    /\ UNCHANGED << pathEntry, dirs, lockHolder, config, keep, locking,
                    tmp_root, fetcher, skip_checksum_for_mirror, cwd >>
    /\ UNCHANGED others

\* Stage.__exit__: destroy() unless an error propagates or keep is set,
\* then the release of the lock.  An error of destroy() leaves __exit__
\* before the release.
Exit(p) ==
    /\ pc[p] \in {"in", "raising"}
    /\ \E fault \in BOOLEAN :
        LET exc == pc[p] = "raising"
            run == exit_destroys(exc, keep[p])
            d   == IF run THEN destroy(pathEntry, dirs, fault)
                   ELSE [entry |-> pathEntry, dirs |-> dirs,
                         raised |-> "none"]
        IN
        /\ pathEntry' = d.entry
        /\ dirs' = d.dirs
        /\ cwd' = IF run /\ d.raised = "none"
                  THEN LET c == after_removal(cwd,
                                   removed_dirs(pathEntry, dirs,
                                                d.entry, d.dirs))
                       IN  [c EXCEPT ![p] = cwd_after_destroy(c[p])]
                  ELSE cwd
        /\ lockHolder' = IF d.raised = "none" THEN lock_after_exit(p)
                         ELSE lockHolder
        /\ pc' = [pc EXCEPT ![p] =
                     IF exc \/ d.raised # "none" THEN "failed" ELSE "out"]
        /\ last' = [Op(p, "exit", d.raised) EXCEPT !.exc = exc]
    /\ UNCHANGED << config, keep, locking, tmp_root, fetcher,
                    skip_checksum_for_mirror >>
    /\ UNCHANGED others

\* Stage.create, called by the caller.
Create(p) ==
    /\ pc[p] \in {"made", "in"}
    /\ \E c \in Children :
        LET r == create(pathEntry, dirs, tmp_root[p], c) IN
        /\ r.mkdtemp => fresh(dirs, tmp_root[p], c)
        /\ pathEntry' = r.entry
        /\ dirs' = r.dirs
        /\ pc' = [pc EXCEPT ![p] =
                     IF r.raised = "none" THEN pc[p] ELSE after_raise(p)]
        /\ last' = [Op(p, "create", r.raised) EXCEPT !.mkdtemp = r.mkdtemp]
    /\ UNCHANGED << lockHolder, config, keep, locking, tmp_root, fetcher,
                    skip_checksum_for_mirror, cwd >>
    /\ UNCHANGED others

\* Stage.destroy, called by the caller.
Destroy(p) ==
    /\ pc[p] \in {"made", "in"}
    /\ \E fault \in BOOLEAN :
        LET d == destroy(pathEntry, dirs, fault) IN
        /\ pathEntry' = d.entry
        /\ dirs' = d.dirs
        /\ cwd' = IF d.raised = "none"
                  THEN LET c == after_removal(cwd,
                                   removed_dirs(pathEntry, dirs,
                                                d.entry, d.dirs))
                       IN  [c EXCEPT ![p] = cwd_after_destroy(c[p])]
                  ELSE cwd
        /\ pc' = [pc EXCEPT ![p] =
                     IF d.raised = "none" THEN pc[p] ELSE after_raise(p)]
        /\ last' = Op(p, "destroy", d.raised)
    /\ UNCHANGED << lockHolder, config, keep, locking, tmp_root, fetcher,
                    skip_checksum_for_mirror >>
    /\ UNCHANGED others

\* Mutant: chdir() does not look whether path is a directory.
chdir_unchecked(e, ds) == TRUE

\* Stage.chdir: os.chdir(self.path) if os.path.isdir(self.path), ChdirError
\* otherwise.
chdir_ok(e, ds) == isdir(e, ds)

\* Stage.fetch: chdir() into the stage, then the candidates in order.
Fetch(p) ==
    /\ pc[p] \in {"made", "in"}
    /\ \E mirror_only \in BOOLEAN :
        IF ~chdir_ok(pathEntry, dirs) THEN
            /\ pc' = [pc EXCEPT ![p] = after_raise(p)]
            /\ last' = [Op(p, "fetch", "ChdirError")
                           EXCEPT !.mirror_only = mirror_only]
            /\ UNCHANGED << fetcher, skip_checksum_for_mirror, cwd >>
        ELSE
            LET fs == fetchers(mirror_only) IN
            \E outcome \in [1..Len(fs) -> Outcomes] :
                LET r == try_fetchers(fs, outcome, 1, <<>>) IN
                /\ fetcher' = [fetcher EXCEPT ![p] = r.fetcher]
                /\ skip_checksum_for_mirror' =
                       [skip_checksum_for_mirror EXCEPT
                            ![p] = skip_after_fetch]
                /\ cwd' = [cwd EXCEPT ![p] = [dir  |-> chdir_target(pathEntry),
                                              gone |-> FALSE]]
                /\ pc' = [pc EXCEPT ![p] =
                             IF r.raised = "none" THEN pc[p]
                             ELSE after_raise(p)]
                /\ last' = [Op(p, "fetch", r.raised) EXCEPT
                               !.mirror_only = mirror_only,
                               !.order = fs,
                               !.tried = r.tried,
                               !.names = r.names]
    /\ UNCHANGED << pathEntry, dirs, lockHolder, config, keep, locking,
                    tmp_root >>
    /\ UNCHANGED others

\* Stage.check: the warning, or the active fetcher's check(), which raises
\* when the checksum does not match.
Check(p) ==
    /\ pc[p] \in {"made", "in"}
    /\ \E good \in BOOLEAN :
        LET skipped == check_skips(fetcher[p], skip_checksum_for_mirror[p])
            raised  == IF skipped \/ good THEN "none" ELSE "ChecksumError"
        IN
        /\ pc' = [pc EXCEPT ![p] =
                     IF raised = "none" THEN pc[p] ELSE after_raise(p)]
        /\ last' = [Op(p, "check", raised) EXCEPT !.skipped = skipped]
    /\ UNCHANGED << pathEntry, dirs, lockHolder, config, keep, locking,
                    tmp_root, fetcher, skip_checksum_for_mirror, cwd >>
    /\ UNCHANGED others

\* purge(): every entry under the stage root is removed, links together
\* with their backing directories.  No lock is asked for.
Purge(p) ==
    /\ pc[p] # "absent"
    /\ LET r == remove_linked_tree(pathEntry, dirs) IN
        /\ pathEntry' = r.entry
        /\ dirs' = r.dirs
        /\ cwd' = after_removal(cwd, removed_dirs(pathEntry, dirs,
                                                  r.entry, r.dirs))
    /\ last' = Op(p, "purge", "none")
    /\ UNCHANGED << lockHolder, config, pc, keep, locking, tmp_root,
                    fetcher, skip_checksum_for_mirror >>
    /\ UNCHANGED others

\* A process alone on its stage never finds the lock held.
NextAlone ==
    \E p \in Procs :
        \/ Construct(p)
        \/ Enter(p)
        \/ Raise(p)
        \/ Exit(p)
        \/ Create(p)
        \/ Destroy(p)
        \/ Fetch(p)
        \/ Check(p)

\* Processes on one named stage: the operations that take or release the
\* lock or make or remove the directory.  fetch() and check() do neither;
\* their errors inside a scope are the errors of the scope body.
Next ==
    \E p \in Procs :
        \/ Construct(p)
        \/ Enter(p)
        \/ EnterTimeout(p)
        \/ Raise(p)
        \/ Exit(p)
        \/ Create(p)
        \/ Destroy(p)
        \/ Purge(p)

\* ---------------------------------------------------------- initial states
\* What a run can find at path: nothing, a stale file, a directory of an
\* earlier run (accessible or not), a link into /t, /l or /tx.
InitialEntries ==
    {Missing, RegularFile, RealDir(TRUE), RealDir(FALSE)}
        \cup { Link(r \o <<c>>) : r \in {RootT, RootL, RootTX, RootO},
                                   c \in {<<"a">>} }

\* The backing directories earlier runs may have left.
InitialDirs == { r \o << <<"a">> >> : r \in {RootT, RootTX, RootO} }

InitStages(running) ==
    /\ lockHolder = NoProc
    /\ pc = [p \in Procs |-> IF p \in running THEN "new" ELSE "absent"]
    /\ keep = [p \in Procs |-> FALSE]
    /\ locking = [p \in Procs |-> FALSE]
    /\ tmp_root = [p \in Procs |-> None]
    /\ fetcher = [p \in Procs |-> default_fetcher]
    /\ skip_checksum_for_mirror = [p \in Procs |-> TRUE]
    /\ cwd = [p \in Procs |-> [dir |-> Home, gone |-> FALSE]]
    /\ last = Op(NoProc, "none", "none")

InitObjects(running) ==
    /\ InitStages(running)
    /\ composite = NoComposite
    /\ diy = NoDIY
    /\ tree = NoTree
    /\ call = NoCall

\* No plain Stage is in use.
NoStage ==
    /\ pathEntry = Missing
    /\ dirs = {}
    /\ use_tmp_stage = FALSE
    /\ creatable = {}
    /\ mirrors = <<>>
    /\ mirror_path = <<>>
    /\ defaultIsURL = TRUE
    /\ defaultDigest = "abc"
    /\ InitStages({})

\* One process, every state of path and of the temp configuration.
Init ==
    /\ pathEntry \in InitialEntries
    /\ dirs \in SUBSET InitialDirs
    /\ use_tmp_stage \in BOOLEAN
    /\ creatable \in SUBSET {RootL, RootT}
    /\ use_tmp_stage \/ creatable = {}
    /\ mirrors = [i \in 1..1 |-> MirrorRoot(i)]
    /\ mirror_path = <<"p">>
    /\ defaultIsURL = TRUE
    /\ defaultDigest = "abc"
    /\ InitObjects({"p1"})

Spec == Init /\ [][NextAlone]_vars

\* One process, every configuration of mirrors and of the default fetcher.
InitFetch ==
    /\ pathEntry = Missing
    /\ dirs = {}
    /\ use_tmp_stage = FALSE
    /\ creatable = {}
    /\ \E k \in 0..MaxMirrors : mirrors = [i \in 1..k |-> MirrorRoot(i)]
    /\ mirror_path \in {<<>>, <<"p">>}
    /\ defaultIsURL \in BOOLEAN
    /\ defaultDigest \in {"None", "", "abc"}
    /\ InitObjects({"p1"})

SpecFetch == InitFetch /\ [][NextAlone]_vars

\* Two processes on the same named stage.
InitLock ==
    /\ pathEntry \in {Missing, Link(RootT \o << <<"a">> >>)}
    /\ dirs = {RootT \o << <<"a">> >>}
    /\ use_tmp_stage \in BOOLEAN
    /\ creatable \in SUBSET {RootL, RootT}
    /\ use_tmp_stage \/ pathEntry = Missing
    /\ mirrors = <<>>
    /\ mirror_path = <<>>
    /\ defaultIsURL = TRUE
    /\ defaultDigest = "abc"
    /\ InitObjects(Procs)

SpecLock == InitLock /\ [][Next]_vars

\* ========================================================= StageComposite
\* A member of the composite is a Stage of its own name, seen through what
\* the composite uses of it: its path, how far it has been set up (none,
\* made, fetched, expanded), whether its lock is held, and its keep flag.
MemberPath(i) == StageRoot \o << <<"m", ToString(i)>> >>

\* A member Stage as constructed; keep_at_init remembers the keep argument
\* of the constructor.
Member(i, k) ==
    [path |-> MemberPath(i), status |-> "none", locked |-> FALSE, keep |-> k,
     keep_at_init |-> k]

\* What the environment lets a member's operation do.
MemberOutcomes == {"ok", "fail"}

Done(m) == [item |-> m, raised |-> "none"]
Failed(m, e) == [item |-> m, raised |-> e]

\* Stage.__enter__ of a member: the lock, then create().
member_enter(m, o) ==
    IF o = "fail" THEN Failed(m, "LockError")
    ELSE Done([m EXCEPT !.locked = TRUE,
                        !.status = IF @ = "none" THEN "made" ELSE @])

\* Stage.__exit__ of a member: destroy() unless an error propagates or
\* keep is set, then the release of the lock.
member_exit(m, exc, o) ==
    IF exit_destroys(exc, m.keep)
    THEN IF o = "fail" THEN Failed(m, "OSError")
         ELSE Done([m EXCEPT !.status = "none", !.locked = FALSE])
    ELSE Done([m EXCEPT !.locked = FALSE])

\* The six methods of a member that the composite passes on.
member_call(m, method, o) ==
    CASE method = "create" ->
           IF o = "fail" THEN Failed(m, "die")
           ELSE Done([m EXCEPT !.status = IF @ = "none" THEN "made" ELSE @])
      [] method = "fetch" ->
           IF m.status = "none" THEN Failed(m, "ChdirError")
           ELSE IF o = "fail" THEN Failed(m, "FetchError")
           ELSE Done([m EXCEPT !.status = IF @ = "made" THEN "fetched"
                                          ELSE @])
      [] method = "check" ->
           IF o = "fail" THEN Failed(m, "ChecksumError") ELSE Done(m)
      [] method = "expand_archive" ->
           IF m.status = "expanded" THEN Done(m)
           ELSE IF o = "fail" \/ m.status # "fetched"
                THEN Failed(m, "Error")
           ELSE Done([m EXCEPT !.status = "expanded"])
      [] method = "restage" ->
           IF o = "fail" \/ m.status \notin {"fetched", "expanded"}
           THEN Failed(m, "Error")
           ELSE Done([m EXCEPT !.status = "expanded"])
      [] method = "destroy" ->
           IF o = "fail" THEN Failed(m, "OSError")
           ELSE Done([m EXCEPT !.status = "none"])

\* Stage.source_path and Stage.archive_file of a member.
member_source_path(m) ==
    IF m.status = "expanded" THEN m.path \o << <<"src">> >> ELSE None
member_archive_file(m) ==
    IF m.status \in {"fetched", "expanded"} THEN m.path \o << <<"tgz">> >>
    ELSE None

\* The methods pattern.composite passes on to every item.
method_list ==
    {"fetch", "create", "check", "expand_archive", "restage", "destroy"}

\* for item in self
insertion_order(n) == [k \in 1..n |-> k]

\* Mutant: __exit__ walks the items as __enter__ does.
exit_order_not_reversed(n) == [k \in 1..n |-> k]

\* for item in reversed(self)
exit_order(n) == [k \in 1..n |-> n + 1 - k]

\* item.keep = getattr(self, 'keep', False)
composite_keep(c) == c.keep = "True"

\* Mutant: __exit__ leaves each item the keep it was constructed with.
item_call_own_keep(m, method, exc, k, o) ==
    CASE method = "__enter__" -> member_enter(m, o)
      [] method = "__exit__"  -> member_exit(m, exc, o)
      [] OTHER                -> member_call(m, method, o)

\* One operation on one item of the composite.
item_call(m, method, exc, k, o) ==
    CASE method = "__enter__" -> member_enter(m, o)
      [] method = "__exit__"  -> member_exit([m EXCEPT !.keep = k], exc, o)
      [] OTHER                -> member_call(m, method, o)

\* The loop over the items in the given order: every item in turn, until
\* one raises.  log is the sequence of the items called.
RECURSIVE for_item(_, _, _, _, _, _, _, _)
for_item(items, order, j, method, exc, k, outcome, log) ==
    IF j > Len(order) THEN [items |-> items, log |-> log, raised |-> "none"]
    ELSE LET i == order[j]
             r == item_call(items[i], method, exc, k, outcome[i])
             after == [items EXCEPT ![i] = r.item]
         IN  IF r.raised # "none"
             THEN [items |-> after, log |-> Append(log, i),
                   raised |-> r.raised]
             ELSE for_item(after, order, j + 1, method, exc, k, outcome,
                           Append(log, i))

Called(method, r, result) ==
    [method |-> method, log |-> r.log, raised |-> r.raised,
     result |-> result, exc |-> FALSE]

\* One of the six methods of method_list, called on the composite.
CompositeCall ==
    /\ composite.pc \in {"made", "in"}
    /\ \E method \in method_list :
       \E outcome \in [1..Len(composite.items) -> MemberOutcomes] :
        LET r == for_item(composite.items,
                          insertion_order(Len(composite.items)), 1, method,
                          FALSE, FALSE, outcome, <<>>)
        IN  /\ composite' = [composite EXCEPT !.items = r.items]
            /\ call' = Called(method, r, None)
    /\ UNCHANGED << stage, diy, tree >>

\* StageComposite.__enter__
CompositeEnter ==
    /\ composite.pc = "made"
    /\ \E outcome \in [1..Len(composite.items) -> MemberOutcomes] :
        LET r == for_item(composite.items,
                          insertion_order(Len(composite.items)), 1,
                          "__enter__", FALSE, FALSE, outcome, <<>>)
        IN  /\ composite' = [composite EXCEPT
                                !.items = r.items,
                                !.pc = IF r.raised = "none" THEN "in"
                                       ELSE "failed"]
            /\ call' = Called("__enter__", r, None)
    /\ UNCHANGED << stage, diy, tree >>

\* StageComposite.__exit__
CompositeExit ==
    /\ composite.pc = "in"
    /\ \E exc \in BOOLEAN :
       \E outcome \in [1..Len(composite.items) -> MemberOutcomes] :
        LET r == for_item(composite.items,
                          exit_order(Len(composite.items)), 1, "__exit__",
                          exc, composite_keep(composite), outcome, <<>>)
        IN  /\ composite' = [composite EXCEPT
                                !.items = r.items,
                                !.pc = IF r.raised = "none" /\ ~exc
                                       THEN "out" ELSE "failed"]
            /\ call' = [Called("__exit__", r, None) EXCEPT !.exc = exc]
    /\ UNCHANGED << stage, diy, tree >>

\* Mutant: the queries go to the item added last.
root_is_last(items) == items[Len(items)]

\* self[0]
root(items) == items[1]

queries == {"path", "source_path", "archive_file", "chdir_to_source"}

\* What a Stage answers to a query.  chdir_to_source answers with the
\* directory the process is in afterwards and dies when there is none.
member_query(m, q) ==
    CASE q = "path"         -> [value |-> m.path, raised |-> "none"]
      [] q = "source_path"  -> [value |-> member_source_path(m),
                                raised |-> "none"]
      [] q = "archive_file" -> [value |-> member_archive_file(m),
                                raised |-> "none"]
      [] q = "chdir_to_source" ->
           [value |-> member_source_path(m),
            raised |-> IF member_source_path(m) = None THEN "die"
                       ELSE "none"]

\* StageComposite.source_path, path, archive_file and chdir_to_source
CompositeQuery ==
    /\ composite.pc \in {"made", "in"}
    /\ \E q \in queries :
        LET r == member_query(root(composite.items), q) IN
        call' = [method |-> q, log |-> <<>>, raised |-> r.raised,
                 result |-> r.value, exc |-> FALSE]
    /\ UNCHANGED << stage, composite, diy, tree >>

NextComposite ==
    \/ CompositeCall
    \/ CompositeEnter
    \/ CompositeExit
    \/ CompositeQuery

\* A composite of one to MaxMembers stages, each with a keep flag of its
\* own; the composite has a keep attribute or has none.
InitComposite ==
    /\ NoStage
    /\ \E n \in 1..MaxMembers : \E k \in [1..n -> BOOLEAN] :
        \E ck \in {"absent", "True", "False"} :
          composite = [items |-> [i \in 1..n |-> Member(i, k[i])],
                       keep |-> ck, pc |-> "made"]
    /\ diy = NoDIY
    /\ tree = NoTree
    /\ call = NoCall

SpecComposite == InitComposite /\ [][NextComposite]_vars

\* =============================================================== DIYStage
\* The directory the caller hands to DIYStage, and what may lie in it.
DIYPath == << <<"d">> >>
Files == {"f", "g", "h"}

\* DIYStage.__init__
DIYStage(path, dir) ==
    [path |-> path, source_path |-> path, archive_file |-> None,
     dir |-> dir, cwd |-> Home]

\* DIYStage.chdir
diy_chdir(d) ==
    IF d.dir.exists THEN [diy |-> [d EXCEPT !.cwd = d.path],
                          raised |-> "none"]
    ELSE [diy |-> d, raised |-> "ChdirError"]

\* Mutant: destroy() removes the directory as Stage.destroy does.
diy_destroy_removes(d) ==
    [d EXCEPT !.dir = [exists |-> FALSE, contents |-> {}]]

\* DIYStage.destroy: pass
diy_destroy(d) == d

diy_methods ==
    {"__enter__", "__exit__", "chdir", "chdir_to_source", "fetch", "check",
     "expand_archive", "restage", "destroy"}

\* The methods of DIYStage.
diy_call(d, method) ==
    CASE method \in {"chdir", "chdir_to_source"} -> diy_chdir(d)
      [] method = "restage" -> [diy |-> d, raised |-> "die"]
      [] method = "destroy" -> [diy |-> diy_destroy(d), raised |-> "none"]
      [] OTHER -> [diy |-> d, raised |-> "none"]

DIYCall ==
    /\ diy # NoDIY
    /\ \E method \in diy_methods :
        LET r == diy_call(diy, method) IN
        /\ diy' = r.diy
        /\ call' = [method |-> method, log |-> <<>>, raised |-> r.raised,
                    result |-> None, exc |-> FALSE]
    /\ UNCHANGED << stage, composite, tree >>

\* The caller's own build writes into the directory or removes from it.
DIYWork ==
    /\ diy # NoDIY
    /\ diy.dir.exists
    /\ \E f \in Files :
        diy' = [diy EXCEPT !.dir.contents =
                   IF f \in @ THEN @ \ {f} ELSE @ \cup {f}]
    /\ call' = [method |-> "work", log |-> <<>>, raised |-> "none",
                result |-> None, exc |-> FALSE]
    /\ UNCHANGED << stage, composite, tree >>

NextDIY ==
    \/ DIYCall
    \/ DIYWork

InitDIY ==
    /\ NoStage
    /\ composite = NoComposite
    /\ tree = NoTree
    /\ \E dir \in {[exists |-> FALSE, contents |-> {}]}
                   \cup {[exists |-> TRUE, contents |-> c] :
                            c \in SUBSET Files} :
         diy = DIYStage(DIYPath, dir)
    /\ call = NoCall

SpecDIY == InitDIY /\ [][NextDIY]_vars

\* ============================================== the stage's source directory
\* The stage directory and the names of what may lie directly in it: the
\* downloaded archive and the directory expanded or checked out.
TreePath == StageRoot \o << <<"r">> >>
Archive == [name |-> "z", dir |-> FALSE, full |-> FALSE]
SourceDir(full) == [name |-> "x", dir |-> TRUE, full |-> full]
child(e) == TreePath \o << <<e.name>> >>

\* The fetchers: a URL fetcher that expands its archive, a URL fetcher with
\* expand_archive off, and a fetcher that checks out of a repository.
FetcherKinds == {"url", "raw", "vcs"}

Returned(v) == [value |-> v, raised |-> "none"]
Raised(e) == [value |-> None, raised |-> e]

RECURSIVE first_dir(_)
first_dir(listing) ==
    IF listing = <<>> THEN None
    ELSE IF Head(listing).dir THEN child(Head(listing))
    ELSE first_dir(Tail(listing))

\* Mutant: source_path answers with the first entry, directory or not.
source_path_first_entry(t) ==
    IF t.kind = "raw" THEN Returned(TreePath)
    ELSE IF ~t.made THEN Raised("OSError")
    ELSE Returned(IF t.listing = <<>> THEN None ELSE child(Head(t.listing)))

\* Stage.source_path.  os.listdir raises OSError when path is not there.
source_path(t) ==
    IF t.kind = "raw" THEN Returned(TreePath)
    ELSE IF ~t.made THEN Raised("OSError")
    ELSE Returned(first_dir(t.listing))

has(t, name) == \E i \in 1..Len(t.listing) : t.listing[i].name = name
entry(t, q) ==
    CHOOSE e \in {t.listing[i] : i \in 1..Len(t.listing)} : child(e) = q

\* fetcher.fetch(): a URL fetcher downloads the archive into the stage, a
\* repository fetcher checks the sources out into a directory of the stage.
fetcher_fetch(t) ==
    IF t.kind = "vcs"
    THEN IF has(t, "x") THEN t
         ELSE [t EXCEPT !.listing = Append(@, SourceDir(TRUE))]
    ELSE IF has(t, "z") THEN t
         ELSE [t EXCEPT !.listing = Append(@, Archive)]

\* fetcher.expand(): a URL fetcher that expands needs the archive and
\* unpacks what the archive holds; the other fetchers have nothing to
\* expand.
fetcher_expand(t) ==
    IF t.kind # "url" THEN [tree |-> t, raised |-> "none"]
    ELSE IF ~has(t, "z") THEN [tree |-> t, raised |-> "NoArchiveFileError"]
    ELSE IF t.yields = "nothing" \/ has(t, "x")
         THEN [tree |-> t, raised |-> "none"]
    ELSE [tree |-> [t EXCEPT !.listing =
                       Append(@, SourceDir(t.yields = "full"))],
          raised |-> "none"]

\* Mutant: expand_archive() expands whatever source_path says.
expand_archive_always(t) ==
    LET r == fetcher_expand(t) IN
    [tree |-> r.tree, raised |-> r.raised, expand |-> TRUE]

\* Stage.expand_archive.  expand tells whether fetcher.expand() was called.
expand_archive(t) ==
    LET archive_dir == source_path(t) IN
    IF archive_dir.raised # "none"
    THEN [tree |-> t, raised |-> archive_dir.raised, expand |-> FALSE]
    ELSE IF archive_dir.value = None
    THEN LET r == fetcher_expand(t) IN
         [tree |-> r.tree, raised |-> r.raised, expand |-> TRUE]
    ELSE [tree |-> t, raised |-> "none", expand |-> FALSE]

\* os.listdir(path) of the directory q of the stage is empty.
is_empty(t, q) ==
    IF q = TreePath THEN t.listing = <<>> ELSE ~entry(t, q).full

\* Stage.chdir_to_source
chdir_to_source(t) ==
    LET path == source_path(t) IN
    IF path.raised # "none" THEN [tree |-> t, raised |-> path.raised]
    ELSE IF path.value = None THEN [tree |-> t, raised |-> "die"]
    ELSE IF path.value = TreePath /\ ~t.made
         THEN [tree |-> t, raised |-> "OSError"]
    ELSE [tree |-> [t EXCEPT !.cwd = path.value],
          raised |-> IF is_empty(t, path.value) THEN "die" ELSE "none"]

TreeCalled(method, raised, result, expand) ==
    [method |-> method, log |-> IF expand THEN << "expand" >> ELSE <<>>,
     raised |-> raised, result |-> result, exc |-> FALSE]

\* Stage.create
TreeCreate ==
    /\ tree # NoTree
    /\ tree' = [tree EXCEPT !.made = TRUE]
    /\ call' = TreeCalled("create", "none", None, FALSE)
    /\ UNCHANGED << stage, composite, diy >>

\* Stage.fetch: chdir() into the stage, then the fetcher.
TreeFetch ==
    /\ tree # NoTree
    /\ IF tree.made
       THEN /\ tree' = [fetcher_fetch(tree) EXCEPT !.cwd = TreePath]
            /\ call' = TreeCalled("fetch", "none", None, FALSE)
       ELSE /\ tree' = tree
            /\ call' = TreeCalled("fetch", "ChdirError", None, FALSE)
    /\ UNCHANGED << stage, composite, diy >>

\* Stage.source_path, read by the caller.
SourcePath ==
    /\ tree # NoTree
    /\ LET r == source_path(tree) IN
        call' = TreeCalled("source_path", r.raised, r.value, FALSE)
    /\ UNCHANGED << stage, composite, diy, tree >>

\* Stage.expand_archive
ExpandArchive ==
    /\ tree # NoTree
    /\ LET r == expand_archive(tree) IN
        /\ tree' = r.tree
        /\ call' = TreeCalled("expand_archive", r.raised, None, r.expand)
    /\ UNCHANGED << stage, composite, diy >>

\* Stage.chdir_to_source
ChdirToSource ==
    /\ tree # NoTree
    /\ LET r == chdir_to_source(tree) IN
        /\ tree' = r.tree
        /\ call' = TreeCalled("chdir_to_source", r.raised, None, FALSE)
    /\ UNCHANGED << stage, composite, diy >>

\* Stage.destroy: the tree goes, and a caller inside it moves to the
\* parent directory of path.
TreeDestroy ==
    /\ tree # NoTree
    /\ tree' = [tree EXCEPT !.made = FALSE, !.listing = <<>>,
                            !.cwd = IF tree.made /\ @ # Home
                                    THEN dirname(TreePath) ELSE @]
    /\ call' = TreeCalled("destroy", "none", None, FALSE)
    /\ UNCHANGED << stage, composite, diy >>

NextSource ==
    \/ TreeCreate
    \/ TreeFetch
    \/ SourcePath
    \/ ExpandArchive
    \/ ChdirToSource
    \/ TreeDestroy

\* A stage of any fetcher, created or not; what an earlier run left in it.
InitSource ==
    /\ NoStage
    /\ composite = NoComposite
    /\ diy = NoDIY
    /\ \E kind \in FetcherKinds : \E yields \in {"full", "empty", "nothing"} :
       \E made \in BOOLEAN : \E left \in {<<>>, << Archive >>} :
         /\ kind = "vcs" => yields = "full"
         /\ ~made => left = <<>>
         /\ tree = [kind |-> kind, yields |-> yields, made |-> made,
                    listing |-> left, cwd |-> Home,
                    placement |-> "None", root |-> NoTree.root]
    /\ call = NoCall

SpecSource == InitSource /\ [][NextSource]_vars

\* ========================================================== ResourceStage
\* resource.placement: None, a string, or a dictionary (here of one key).
Placements == {"None", "str", "dict"}

\* The names a placement can give the destination under
\* root_stage.source_path/resource.destination, and what lies there:
\* nothing, something from before, or what a placement moved there.
DestNames == {"x", "r", "s", "v"}
NoDest == [n \in DestNames |-> "none"]

\* os.path.basename of a directory of the stage.
basename(q) == q[Len(q)][1]

\* The dictionary of lines 446-449, as its one (key, value) pair.
placement_dict(pl, sp) ==
    CASE pl = "None" -> [key |-> "", value |-> basename(sp)]
      [] pl = "str"  -> [key |-> "", value |-> "s"]
      [] pl = "dict" -> [key |-> "k", value |-> "v"]

\* join_path(self.source_path, key) exists: the directory itself for the
\* empty key, the entry k of a source directory that is not empty.
source_exists(t, sp, key) ==
    IF sp = TreePath THEN t.made /\ key = ""
    ELSE key = "" \/ entry(t, sp).full

\* Mutant: the source entry is copied and stays where it was.
moved_out_copies(t, sp, key) == t

\* shutil.move(source_path, destination_path) seen from the stage: the
\* directory is gone from it, or its entry k is.
moved_out(t, sp, key) ==
    IF sp = TreePath THEN [t EXCEPT !.made = FALSE, !.listing = <<>>]
    ELSE IF key = ""
    THEN [t EXCEPT !.listing =
             SelectSeq(@, LAMBDA e : child(e) # sp)]
    ELSE [t EXCEPT !.listing =
             [i \in 1..Len(@) |->
                 IF child(@[i]) = sp THEN [@[i] EXCEPT !.full = FALSE]
                 ELSE @[i]]]

Placed(t, raised, events) == [tree |-> t, raised |-> raised, log |-> events]

\* ResourceStage.expand_archive: Stage.expand_archive, then the placement.
resource_expand_archive(t) ==
    LET super == expand_archive(t)
        t1 == super.tree
        ev == IF super.expand THEN << "expand" >> ELSE <<>>
        sp == source_path(t1)
    IN
    IF super.raised # "none" THEN Placed(t1, super.raised, ev)
    ELSE IF sp.raised # "none" THEN Placed(t1, sp.raised, ev)
    ELSE IF sp.value = None THEN Placed(t1, "AttributeError", ev)
    ELSE IF ~t1.root.source THEN Placed(t1, "AttributeError", ev)
    ELSE LET pd == placement_dict(t1.placement, sp.value)
             t2 == [t1 EXCEPT !.root.target = TRUE]
         IN  IF t2.root.dest[pd.value] # "none" THEN Placed(t2, "none", ev)
             ELSE IF ~source_exists(t2, sp.value, pd.key)
             THEN Placed(t2, "IOError", ev)
             ELSE Placed([moved_out(t2, sp.value, pd.key) EXCEPT
                             !.root.dest[pd.value] = "moved"],
                         "none", Append(ev, "move"))

ResourceExpandArchive ==
    /\ tree # NoTree
    /\ LET r == resource_expand_archive(tree) IN
        /\ tree' = r.tree
        /\ call' = [method |-> "resource_expand_archive", log |-> r.log,
                    raised |-> r.raised, result |-> None, exc |-> FALSE]
    /\ UNCHANGED << stage, composite, diy >>

NextResource ==
    \/ NextSource
    \/ ResourceExpandArchive

\* A resource stage of any fetcher and placement beside its root stage,
\* whose source directory may be missing and may already hold something at
\* a destination.
InitResource ==
    /\ NoStage
    /\ composite = NoComposite
    /\ diy = NoDIY
    /\ \E kind \in FetcherKinds : \E yields \in {"full", "nothing"} :
       \E pl \in Placements : \E source \in BOOLEAN :
       \E dest \in {NoDest} \cup {[NoDest EXCEPT ![n] = "old"] :
                                     n \in DestNames} :
         /\ kind = "vcs" => yields = "full"
         /\ tree = [kind |-> kind, yields |-> yields, made |-> FALSE,
                    listing |-> <<>>, cwd |-> Home, placement |-> pl,
                    root |-> [source |-> source, target |-> FALSE,
                              dest |-> dest]]
    /\ call = NoCall

SpecResource == InitResource /\ [][NextResource]_vars

\* ================================================================= claims
InScope(p) == pc[p] \in {"in", "raising"}

\* C1: of two processes that use the stage of the same name as a scoped
\* resource with locking enabled, at most one is inside its scope at any
\* time.
C1_MutualExclusion ==
    \A p \in Procs, q \in Procs :
        (p # q /\ locking[p] /\ locking[q]) => ~(InScope(p) /\ InScope(q))

\* A locking process is inside its scope while the other, locking too, has
\* just failed to enter with a lock timeout.
C1_Witness ==
    \E p \in Procs, q \in Procs :
        /\ p # q /\ locking[p] /\ locking[q]
        /\ InScope(p) /\ lockHolder = p
        /\ pc[q] = "failed"
        /\ last = Op(q, "enter", "LockError")

\* C2: once scope entry has acquired the lock, the lock is released on every
\* way out of the scope: a process that has left its scope, or failed to
\* enter it, does not hold the lock.
C2_LockReleasedOnEveryWayOut ==
    \A p \in Procs :
        (locking[p] /\ pc[p] \in {"out", "failed"}) => lockHolder # p

\* C3: scope exit leaves path and its backing directory as they were when an
\* error propagates out of the scope (whatever keep is) and when keep is
\* set; an exit that returns with no error and keep unset has removed the
\* link or directory at path and the backing directory.
C3_ExitFate ==
    [][\A p \in Procs :
        (InScope(p) /\ pc'[p] \in {"out", "failed"}) =>
            /\ pc[p] = "raising" =>
                   (pathEntry' = pathEntry /\ dirs' = dirs)
            /\ (pc[p] = "in" /\ keep[p]) =>
                   (pathEntry' = pathEntry /\ dirs' = dirs /\ pc'[p] = "out")
            /\ (pc[p] = "in" /\ ~keep[p] /\ pc'[p] = "out") =>
                   /\ pathEntry'.kind = "missing"
                   /\ islink(pathEntry) =>
                          realpath(pathEntry.target) \notin dirs'
      ]_vars

\* A scope with keep unset was left by an error, and the stage directory is
\* there.
C3_Witness ==
    /\ last.op = "exit" /\ last.exc
    /\ ~keep[last.proc]
    /\ pc[last.proc] = "failed"
    /\ isdir(pathEntry, dirs)

\* The mirrors in reverse configuration order, then the default fetcher
\* unless only mirrors are asked for.
ReverseMirrorsThenDefault(mirror_only) ==
    [i \in 1..Len(mirrors) |-> mirror_fetchers[Len(mirrors) + 1 - i]]
        \o (IF mirror_only THEN <<>> ELSE <<default_fetcher>>)

FetchRan == last.op = "fetch" /\ last.raised # "ChdirError"

\* C4: for a stage with a mirror path, fetch() tries the candidates in the
\* order [mk, ..., m1, D]; with mirror_only, [mk, ..., m1], and D is never
\* tried.
C4_TryOrder ==
    (FetchRan /\ mirror_path # <<>>) =>
        LET want == ReverseMirrorsThenDefault(last.mirror_only) IN
        /\ last.order = want
        /\ Len(last.tried) <= Len(want)
        /\ \A i \in 1..Len(last.tried) : last.tried[i].f = want[i]
        /\ last.mirror_only =>
               \A i \in 1..Len(last.tried) : last.tried[i].f.kind # "default"

\* With two or more mirrors, every candidate was tried, the default last.
C4_Witness ==
    /\ FetchRan /\ mirror_path # <<>>
    /\ ~last.mirror_only
    /\ Len(mirrors) >= 2
    /\ Len(last.tried) = Len(mirrors) + 1
    /\ last.tried[Len(last.tried)].f = default_fetcher

\* C5: when fetch() returns, the active fetcher is the first candidate of the
\* try order whose fetch succeeded: the candidates before it were each
\* attempted once, in order, and failed with a recoverable error, and none
\* after it was attempted.
C5_FirstSuccessAdopted ==
    (FetchRan /\ last.raised = "none") =>
        LET n == Len(last.tried) IN
        /\ n >= 1 /\ n <= Len(last.order)
        /\ \A i \in 1..n : last.tried[i].f = last.order[i]
        /\ \A i \in 1..(n - 1) : last.tried[i].did = "SpackError"
        /\ last.tried[n].did = "ok"
        /\ fetcher[last.proc] = last.order[n]

\* fetch() returned after two candidates failed and a third succeeded.
C5_Witness ==
    /\ FetchRan /\ last.raised = "none"
    /\ Len(last.tried) = 3
    /\ fetcher[last.proc] = default_fetcher

AllCandidatesFailed ==
    /\ Len(last.tried) = Len(last.order)
    /\ \A i \in 1..Len(last.tried) : last.tried[i].did = "SpackError"

\* C6: if every candidate fails with a recoverable fetch error, fetch() ends
\* with the active fetcher equal to the default fetcher and raises the
\* aggregate error, which names the stage.
C6_AllFailedResets ==
    (FetchRan /\ AllCandidatesFailed) =>
        /\ fetcher[last.proc] = default_fetcher
        /\ last.raised = "FetchError"
        /\ last.names = StageName

\* Only mirrors were tried, all failed.
C6_Witness ==
    /\ FetchRan /\ AllCandidatesFailed
    /\ last.mirror_only
    /\ Len(last.tried) >= 2
    /\ last.raised = "FetchError"

\* C7: check() skips verification exactly when the active fetcher is a mirror
\* fetcher that carries no digest; otherwise it delegates to the active
\* fetcher.
C7_CheckSkipsIffMirrorWithoutDigest ==
    last.op = "check" =>
        (last.skipped <=>
            (/\ fetcher[last.proc].kind = "mirror"
             /\ ~bool(fetcher[last.proc].digest)))

\* check() skipped verification.
C7_Witness ==
    /\ last.op = "check" /\ last.skipped
    /\ fetcher[last.proc].kind = "mirror"

CreateReturned(l) == l.op \in {"create", "enter"} /\ l.raised = "none"

\* create() has returned for the Stage of p and nothing was destroyed since:
\* either it was the last operation, or p is inside the scope its create()
\* opened and path still resolves to a directory (with fetch(), check() or
\* further create() calls in between).
CreatedAndNotDestroyed(p) ==
    \/ CreateReturned(last) /\ last.proc = p
    \/ pc[p] = "in" /\ isdir(pathEntry, dirs)

\* C8: a second create() with no destroy() since the first leaves what is at
\* path (the directory, or the link and its target) and the backing
\* directories as they are, removes nothing and makes no new temp directory.
C8_CreateIdempotent ==
    [][\A p \in Procs :
        (CreatedAndNotDestroyed(p) /\ last'.op = "create" /\ last'.proc = p)
          => /\ pathEntry' = pathEntry
             /\ dirs' = dirs
             /\ ~last'.mkdtemp
             /\ last'.raised = "none"
      ]_vars

\* Inside the scope, whose entry created the stage, create() found the link
\* into temp storage and kept it.
C8_Witness ==
    /\ last.op = "create" /\ last.raised = "none" /\ ~last.mkdtemp
    /\ pc[last.proc] = "in"
    /\ islink(pathEntry)
    /\ realpath(pathEntry.target) \in dirs

\* C9: whenever create() returns, path is a real directory or a symbolic link
\* whose target exists.
C9_NoDanglingPath ==
    CreateReturned(last) =>
        \/ pathEntry.kind = "dir"
        \/ /\ pathEntry.kind = "link"
           /\ realpath(pathEntry.target) \in dirs

\* create() returned after it made a new temp directory and linked it.
C9_Witness ==
    /\ CreateReturned(last) /\ last.mkdtemp
    /\ pathEntry.kind = "link"

\* C10: when path is a symbolic link to a live directory and temp staging is
\* off, create() raises nothing and leaves a real directory at path.
C10_LinkReplacedByDirectory ==
    [][(/\ last'.op = "create"
        /\ islink(pathEntry)
        /\ realpath(pathEntry.target) \in dirs
        /\ ~use_tmp_stage)
          => (last'.raised = "none" /\ pathEntry'.kind = "dir")
      ]_vars

\* path q lies in the directory tree of top: top's components begin q's.
IsUnder(q, top) ==
    /\ Len(top) <= Len(q)
    /\ SubSeq(q, 1, Len(top)) = top

CreateRan(l) == l.op = "create" \/ (l.op = "enter" /\ l.raised # "LockError")

\* C11: in temp-staging mode with a temp root, create() keeps a symbolic link
\* found at path (does not remove it, makes no new directory) if and only if
\* the link's canonical target exists and lies in the directory tree of the
\* canonical temp root; in every other case the link is removed and a new
\* temp directory made and linked.
C11_LinkReusedIffUnderTempRoot ==
    [][\A p \in Procs :
        (/\ CreateRan(last') /\ last'.proc = p
         /\ islink(pathEntry)
         /\ use_tmp_stage /\ tmp_root[p] # None)
          => LET under == /\ realpath(pathEntry.target) \in dirs
                          /\ IsUnder(realpath(pathEntry.target),
                                     realpath(tmp_root[p]))
             IN  IF under
                 THEN pathEntry' = pathEntry /\ dirs' = dirs
                      /\ ~last'.mkdtemp
                 ELSE last'.mkdtemp /\ last'.raised = "none"
      ]_vars

\* C18: with locking enabled, scope entry runs create() only once the
\* exclusive lock is held by the entering process; when the lock stays with
\* another process for the whole bounded wait, entry fails with a lock
\* timeout error, create() does not run, and the stage directory, its
\* backing directories and the lock are left exactly as they were.
C18_CreateOnlyUnderLock ==
    [][\A p \in Procs :
        (last'.op = "enter" /\ last'.proc = p /\ pc[p] = "made" /\ locking[p])
          => IF acquire_write_ok(p)
             THEN /\ last'.raised # "LockError"
                  /\ lockHolder' = p
             ELSE /\ last'.raised = "LockError"
                  /\ ~last'.mkdtemp
                  /\ pathEntry' = pathEntry
                  /\ dirs' = dirs
                  /\ lockHolder' = lockHolder
                  /\ pc'[p] = "failed"
      ]_vars

C18_Witness ==
    /\ last.op = "enter"
    /\ last.raised = "LockError"
    /\ lockHolder \in Procs \ {last.proc}
    /\ isdir(pathEntry, dirs)

\* destroy() ran to its end in the step: called by the caller, or by
\* __exit__ for a stage that is not kept when no error is propagating.
DestroyReturned(p) ==
    /\ last'.proc = p
    /\ last'.raised = "none"
    /\ \/ last'.op = "destroy"
       \/ last'.op = "exit" /\ ~last'.exc /\ ~keep[p]

\* The process's working directory is the directory at path, reached
\* directly or through the link's backing directory.
InStageTree(p) ==
    /\ isdir(pathEntry, dirs)
    /\ cwd[p].dir = chdir_target(pathEntry)

\* C12: once destroy() has returned, the working directory of its process
\* resolves to an existing directory: the parent directory of path when it
\* was in the removed stage tree (directly or through the backing directory
\* of the link), and the directory it was before in every other case.
C12_CwdResolvesAfterDestroy ==
    [][\A p \in Procs :
        (DestroyReturned(p) /\ getcwd_ok(cwd[p]))
          => /\ getcwd_ok(cwd'[p])
             /\ IF InStageTree(p)
                THEN cwd'[p].dir = dirname(StagePath)
                ELSE cwd'[p] = cwd[p]
      ]_vars

C12_Witness ==
    /\ last.op \in {"destroy", "exit"}
    /\ last.raised = "none"
    /\ cwd[last.proc] = [dir |-> StageRoot, gone |-> FALSE]
    /\ ~exists(pathEntry, dirs)

\* An operation of a process that follows the protocol of the stage: a
\* purge, the entry into the scope, or an operation inside the scope.
FollowsProtocol(q) ==
    /\ last'.proc = q
    /\ \/ last'.op = "purge"
       \/ locking[q] /\ (last'.op = "enter" \/ pc[q] \in {"in", "raising"})

\* C20: while a process is inside the scope of the stage and holds its
\* lock, no operation of another process, a purge included, removes the
\* stage directory or the backing directory of its link.
C20_NoRemovalByOthersInScope ==
    [][\A p \in Procs : \A q \in Procs \ {p} :
        (/\ pc[p] = "in" /\ locking[p] /\ lockHolder = p
         /\ FollowsProtocol(q)
         /\ isdir(pathEntry, dirs))
          => /\ isdir(pathEntry', dirs')
             /\ chdir_target(pathEntry') = chdir_target(pathEntry)
      ]_vars

\* The members 1..n first to last, and last to first.
FirstToLast(n) == [k \in 1..n |-> k]
LastToFirst(n) == [k \in 1..n |-> n + 1 - k]
IsPrefix(a, b) == Len(a) <= Len(b) /\ a = SubSeq(b, 1, Len(a))

\* The members a composite operation has called are exactly those of
\* order when it returned, and its first ones up to the member that raised
\* when it raised.
CalledInOrder(order) ==
    IF call.raised = "none" THEN call.log = order
    ELSE call.log # <<>> /\ IsPrefix(call.log, order)

\* C13: on a StageComposite of N members each of fetch, create, check,
\* expand_archive, restage and destroy, and the scope entry, is applied to
\* all N members in insertion order, member 0 first; the scope exit is
\* applied to all N members in reverse order, member N-1 first.  An
\* operation cut short by a member's error has called the members before it
\* in that same order.
C13_BroadcastOrder ==
    LET n == Len(composite.items) IN
    /\ call.method \in method_list \cup {"__enter__"}
         => CalledInOrder(FirstToLast(n))
    /\ call.method = "__exit__" => CalledInOrder(LastToFirst(n))

C13_Witness ==
    /\ Len(composite.items) = 2
    /\ call.method = "__exit__"
    /\ call.raised = "none"
    /\ call.log = << 2, 1 >>
    /\ \A i \in 1..2 : ~composite.items[i].locked

\* C14: on a StageComposite of N >= 1 members the queries path,
\* source_path, archive_file and chdir_to_source give what member 0 gives
\* (the same value, the same fatal error), whatever the state of members
\* 1..N-1.
C14_QueriesAnswerForMemberZero ==
    call.method \in queries
      => LET first == member_query(composite.items[1], call.method) IN
         /\ call.result = first.value
         /\ call.raised = first.raised

C14_Witness ==
    /\ Len(composite.items) = 2
    /\ call.method = "source_path"
    /\ call.result = MemberPath(1) \o << <<"src">> >>
    /\ member_source_path(composite.items[2]) = None

\* C15: no scope entry, fetch, check, expand_archive, destroy or scope exit
\* of a DIYStage changes the wrapped directory, its contents, the stage's
\* path or its source_path, none of them fails, and path = source_path
\* throughout; restage always fails as a fatal request and changes nothing
\* either.
C15_DIYStageChangesNothing ==
    [][(diy # NoDIY /\ call'.method \in diy_methods \ {"chdir",
                                                      "chdir_to_source"})
          => /\ diy' = diy
             /\ diy'.path = diy'.source_path
             /\ call'.raised = IF call'.method = "restage" THEN "die"
                               ELSE "none"
      ]_vars

C15_Witness ==
    /\ call.method = "destroy"
    /\ diy.dir = [exists |-> TRUE, contents |-> {"f"}]
    /\ diy.cwd = DIYPath
    /\ diy.path = DIYPath /\ diy.source_path = DIYPath

\* The directories lying directly in the stage directory.
ChildDirs(t) == { child(t.listing[i]) : i \in { j \in 1..Len(t.listing) :
                                                 t.listing[j].dir } }

SourcePathResolves(t) ==
    LET sp == source_path(t) IN
    /\ sp.raised = "none"
    /\ sp.value # None
    /\ sp.value = TreePath => t.made

\* C19: expand_archive() calls the fetcher's expand if and only if
\* source_path does not resolve to an existing directory at the time of the
\* call.  (A call that fails while it looks for the source directory is not
\* held against the statement.)
C19_ExpandsIffNoSourceDirectory ==
    [][(tree # NoTree /\ call'.method = "expand_archive")
          => \/ call'.raised = "OSError"
             \/ call'.log = << "expand" >> <=> ~SourcePathResolves(tree)
      ]_vars

\* C17: when expand_archive() of a ResourceStage is called a second time,
\* the first call having returned with every destination populated, the
\* second call moves nothing, leaves what lies at each destination as it
\* is, and raises no error.
C17_PlacementIdempotent ==
    [][(/\ call.method = "resource_expand_archive"
        /\ call.raised = "none"
        /\ call'.method = "resource_expand_archive")
          => /\ call'.raised = "none"
             /\ \A i \in 1..Len(call'.log) : call'.log[i] # "move"
             /\ tree'.root.dest = tree.root.dest
      ]_vars

\* create() built the stage anew in the step of p: a fresh temp directory
\* linked at path when there is a temp root, a new real directory at path
\* when there is none.
Rebuilt(p) ==
    IF tmp_root[p] # None
    THEN /\ last'.mkdtemp
         /\ islink(pathEntry')
         /\ realpath(pathEntry'.target) \in dirs' \ dirs
    ELSE /\ ~last'.mkdtemp
         /\ pathEntry' = RealDir(TRUE)

\* C23: the path check decides the cases without a symbolic link so: with
\* nothing at path the stage is built and nothing is removed; an entry that
\* is not a directory is removed and the stage is built; a real directory is
\* kept and nothing on the filesystem changes.
C23_NonLinkCases ==
    [][\A p \in Procs :
        (CreateRan(last') /\ last'.proc = p)
          => /\ pathEntry = Missing
                  => Rebuilt(p) /\ dirs \subseteq dirs'
             /\ pathEntry = RegularFile
                  => Rebuilt(p) /\ dirs \subseteq dirs'
             /\ pathEntry.kind = "dir"
                  => /\ pathEntry' = pathEntry
                     /\ dirs' = dirs
                     /\ ~last'.mkdtemp
      ]_vars

\* create() has returned outside a scope, without temp staging, and a real
\* directory is at path.
C23_Witness ==
    /\ last.op = "create" /\ last.raised = "none" /\ ~last.mkdtemp
    /\ pathEntry = RealDir(TRUE)
    /\ ~use_tmp_stage
    /\ pc[last.proc] = "made"

\* C28: fetch() on a stage whose path is no directory (create() has not run,
\* or destroy() ran after it) raises the directory-change error, tries no
\* candidate, and leaves the active fetcher and the flag
\* skip_checksum_for_mirror as they were.
C28_FetchNeedsDirectory ==
    [][\A p \in Procs :
        (last'.op = "fetch" /\ last'.proc = p /\ ~isdir(pathEntry, dirs))
          => /\ last'.raised = "ChdirError"
             /\ last'.tried = <<>>
             /\ fetcher' = fetcher
             /\ skip_checksum_for_mirror' = skip_checksum_for_mirror
             /\ pathEntry' = pathEntry /\ dirs' = dirs
      ]_vars

\* An earlier fetch() bound a mirror fetcher and cleared the flag, the stage
\* was destroyed, and fetch() then failed on the missing directory.
C28_Witness ==
    /\ last.op = "fetch" /\ last.raised = "ChdirError"
    /\ pathEntry = Missing
    /\ fetcher[last.proc].kind # "default"
    /\ ~skip_checksum_for_mirror[last.proc]

\* The items whose __exit__ returned during the last call of the composite.
Exited(c) ==
    {c.log[j] : j \in {j \in 1..Len(c.log) :
                          j < Len(c.log) \/ c.raised = "none"}}

\* C22: on StageComposite.__exit__ every member reached gets the keep of the
\* composite (False when the composite has none) before its own exit runs, so
\* on a clean exit a member's directory is destroyed exactly when the
\* composite's keep is not set, whatever keep the member was constructed
\* with; with an error propagating no directory is destroyed.
C22_CompositeKeepDecides ==
    [][call'.method = "__exit__" /\ composite.pc = "in" =>
        /\ \A j \in 1..Len(call'.log) :
             composite'.items[call'.log[j]].keep = (composite.keep = "True")
        /\ \A i \in Exited(call') :
             /\ ~composite'.items[i].locked
             /\ composite'.items[i].status =
                  IF call'.exc \/ composite.keep = "True"
                  THEN composite.items[i].status
                  ELSE "none"
      ]_vars

\* A clean exit of a composite without keep has destroyed a member that was
\* constructed with keep, and every member's lock is free.
C22_Witness ==
    /\ call.method = "__exit__" /\ call.raised = "none" /\ ~call.exc
    /\ composite.pc = "out"
    /\ composite.keep = "absent"
    /\ \E i \in 1..Len(composite.items) :
         /\ composite.items[i].keep_at_init
         /\ ~composite.items[i].keep
         /\ composite.items[i].status = "none"
    /\ \A i \in 1..Len(composite.items) : ~composite.items[i].locked

\* C27: a StageComposite scope entry that fails at some member leaves no
\* member lock held.
C27_FailedEntryHoldsNoLock ==
    (call.method = "__enter__" /\ call.raised # "none")
      => \A i \in 1..Len(composite.items) : ~composite.items[i].locked

\* The entry key of the directory sp of the resource stage t exists.
EntryAt(t, sp, key) ==
    IF sp = TreePath THEN t.made /\ key = ""
    ELSE /\ \E i \in 1..Len(t.listing) : child(t.listing[i]) = sp
         /\ key = "" \/ entry(t, sp).full

\* The placement as the statement reads it: None is ('' -> basename of the
\* source path), a string s is ('' -> s), a dictionary is its own entry.
PlacementEntry(pl, sp) ==
    CASE pl = "None" -> << "", basename(sp) >>
      [] pl = "str"  -> << "", "s" >>
      [] pl = "dict" -> << "k", "v" >>

\* C24: a call of ResourceStage.expand_archive() that returns, the
\* destination of its placement entry (key -> value) not existing before,
\* has moved the entry at source_path/key there: the destination holds it,
\* the relocation is logged, the entry is gone from its source location, and
\* no other destination changed.
C24_PlacementMoves ==
    [][(call'.method = "resource_expand_archive" /\ call'.raised = "none")
        => LET sp == source_path(expand_archive(tree).tree).value
               pe == PlacementEntry(tree.placement, sp)
           IN  tree.root.dest[pe[2]] = "none"
                 => /\ tree'.root.dest[pe[2]] = "moved"
                    /\ \A n \in DestNames \ {pe[2]} :
                         tree'.root.dest[n] = tree.root.dest[n]
                    /\ call'.log # <<>>
                    /\ call'.log[Len(call'.log)] = "move"
                    /\ ~EntryAt(tree', sp, pe[1])
      ]_vars

\* A resource without placement has been moved as a whole to the
\* destination named after its source directory, which the stage no longer
\* holds.
C24_Witness ==
    /\ call.method = "resource_expand_archive" /\ call.raised = "none"
    /\ call.log # <<>> /\ call.log[Len(call.log)] = "move"
    /\ tree.placement = "None"
    /\ tree.root.dest["x"] = "moved"
    /\ ~has(tree, "x")

\* The candidate the statement names: the first of tmp_dirs, in configured
\* order, that can be created; none with temp staging off or with no
\* candidate that can be created.
AdoptedRoot ==
    LET able == {i \in 1..Len(tmp_dirs) : tmp_dirs[i] \in creatable} IN
    IF ~use_tmp_stage \/ able = {} THEN None
    ELSE tmp_dirs[CHOOSE i \in able : \A j \in able : i <= j]

LeftByError(l) == l.op = "exit" /\ l.exc

\* C21: the exit of a scope left by an error changes nothing at path, and
\* the scope entry for the same name that follows it keeps the directory
\* standing there: its create() raises nothing, makes no new directory, and
\* leaves path (under temp staging the link and its target) and the backing
\* directories as they were.
C21_FailedScopeReused ==
    [][/\ LeftByError(last') => pathEntry' = pathEntry /\ dirs' = dirs
       /\ (/\ LeftByError(last)
           /\ isdir(pathEntry, dirs)
           /\ CreateRan(last') /\ last'.op = "enter")
            => /\ last'.raised = "none"
               /\ ~last'.mkdtemp
               /\ pathEntry' = pathEntry
               /\ dirs' = dirs
      ]_vars

\* Under temp staging p1 has left its scope by an error and released the
\* lock, and p2 has then entered the scope on the link p1 left, making no
\* directory of its own.
C21_Witness ==
    /\ use_tmp_stage
    /\ locking["p1"] /\ locking["p2"]
    /\ pc["p1"] = "failed" /\ pc["p2"] = "in"
    /\ lockHolder = "p2"
    /\ last.op = "enter" /\ last.proc = "p2" /\ ~last.mkdtemp
    /\ islink(pathEntry) /\ isdir(pathEntry, dirs)

\* Two processes on the same named stage, with the temp root /t when temp
\* staging is on, and possibly the link of an earlier run at path.
InitScope ==
    /\ InitLock
    /\ creatable = IF use_tmp_stage THEN {RootT} ELSE {}

\* The steps of the scope protocol alone: construction, entry, the end of
\* the body by an error, exit.
NextScope ==
    \E p \in Procs :
        \/ Construct(p)
        \/ Enter(p)
        \/ EnterTimeout(p)
        \/ Raise(p)
        \/ Exit(p)

\* Two processes on the same named stage, where every scope body ends and
\* every attempt to enter ends: __exit__ runs once the scope is entered,
\* and acquire_write returns or times out after its bounded wait.
SpecLockFair ==
    /\ InitScope
    /\ [][NextScope]_vars
    /\ \A p \in Procs :
         /\ WF_vars(Exit(p))
         /\ WF_vars(Enter(p) \/ EnterTimeout(p))

\* Every lock a scope entry acquired is released in the end.
EveryLockReleased ==
    \A p \in Procs : (lockHolder = p) ~> (lockHolder # p)

\* No process waits forever at the scope entry.
NoEndlessWait ==
    \A p \in Procs : (pc[p] = "made") ~> (pc[p] # "made")

\* C26: provided every scope body terminates, every lock acquired by a scope
\* entry is eventually released, and every process that attempts to enter
\* the scope of the stage eventually enters it or fails; none waits forever.
C26_LockLiveness == EveryLockReleased /\ NoEndlessWait
====
